---- MODULE Spec2Model ----
(***************************************************************************)
(* Model of aumos_observability.core.alerting.correlation_engine:          *)
(* the AlertCorrelationEngine (buffer, active groups, pruning, the         *)
(* dependency-graph test) and its callers.                                 *)
(*                                                                         *)
(* Alert objects live in a heap (alerts), indexed by their id; the buffer  *)
(* and the groups hold references (ids), as the Python lists hold          *)
(* references to the same Alert objects.  The active-groups dict is a      *)
(* sequence in insertion order, which is the iteration order of a dict.    *)
(* uuid4() is a fresh number.  Time is in whole seconds.                   *)
(***************************************************************************)
EXTENDS Integers, Sequences, FiniteSets, TLC

\* ------------------------------------------------------------------ bounds
MaxAlerts == 3        \* ingest_alert calls in one behaviour
MaxWindow == 2        \* window_seconds of the engine under test
MaxBufferCap == 2     \* max_buffer_size of the engine under test
MaxCallers == 2       \* request handlers awaiting ingest_alert at once
MaxSlos == 2          \* rows of the SLO repository
MaxServiceCalls == 2  \* SLOService calls in one behaviour

\* The wall clock runs over 0..MaxTime: long enough for a group to go stale.
MaxTime == 2 * MaxWindow + 1
\* A caller-supplied timestamp lies MaxSkew seconds in the past: more than
\* one window, less than the pruning horizon.
MaxSkew == MaxWindow + 1

\* --------------------------------------------------------------- constants
None == 0             \* correlated_group_id = None

PC == "aumos-platform-core"
DL == "aumos-data-layer"
EB == "aumos-event-bus"
AG == "aumos-auth-gateway"
LS == "aumos-llm-serving"
GE == "aumos-governance-engine"
TE == "aumos-text-engine"

SERVICE_DEPENDENCY_GRAPH ==
    [s \in {DL, EB, AG, LS, PC} |->
        CASE s = DL -> << GE, "aumos-model-registry", "aumos-ai-finops",
                          "aumos-maturity-assessment", "aumos-context-graph",
                          "aumos-shadow-ai-toolkit" >>
          [] s = EB -> << "aumos-observability", GE, "aumos-ai-finops",
                          "aumos-drift-detector", "aumos-security-runtime" >>
          [] s = AG -> << LS, GE, "aumos-model-registry", "aumos-marketplace",
                          "aumos-ai-finops" >>
          [] s = LS -> << TE, "aumos-agent-framework", "aumos-context-graph",
                          "aumos-hallucination-shield" >>
          [] s = PC -> << DL, EB, AG, "aumos-observability",
                          "aumos-secrets-vault" >>]

Range(s) == {s[i] : i \in DOMAIN s}

\* Every service name of the graph, and one the graph does not know.
AllServices ==
    DOMAIN SERVICE_DEPENDENCY_GRAPH
    \cup UNION {Range(SERVICE_DEPENDENCY_GRAPH[k]) : k \in DOMAIN SERVICE_DEPENDENCY_GRAPH}
    \cup {"aumos-unknown-service"}

\* The services and tenants the modelled callers report alerts for.
IngestServices == {PC, DL, EB, GE}
BackdatedServices == {PC, DL, GE}
ConcurrentServices == {PC, DL, GE}
Callers == 1..MaxCallers
Tenants == {"tenant-A", "tenant-B"}

\* dict.get(key, [])
GraphGet(service) ==
    IF service \in DOMAIN SERVICE_DEPENDENCY_GRAPH
    THEN SERVICE_DEPENDENCY_GRAPH[service] ELSE << >>

\* _is_downstream with a second level of transitive traversal.
_is_downstream_TwoLevels(upstream_service, candidate_service) ==
    LET direct_dependents == GraphGet(upstream_service) IN
    IF \E i \in DOMAIN direct_dependents : direct_dependents[i] = candidate_service
    THEN TRUE
    ELSE \E i \in DOMAIN direct_dependents :
            LET second == GraphGet(direct_dependents[i]) IN
            \/ \E j \in DOMAIN second : second[j] = candidate_service
            \/ \E j \in DOMAIN second :
                  LET third == GraphGet(second[j]) IN
                  \E k \in DOMAIN third : third[k] = candidate_service

\* AlertCorrelationEngine._is_downstream
_is_downstream(upstream_service, candidate_service) ==
    LET direct_dependents == GraphGet(upstream_service) IN
    IF \E i \in DOMAIN direct_dependents : direct_dependents[i] = candidate_service
    THEN TRUE
    ELSE \E i \in DOMAIN direct_dependents :
            LET second == GraphGet(direct_dependents[i]) IN
            \E j \in DOMAIN second : second[j] = candidate_service

\* ------------------------------------------------------------------ floats
\* A Python float is a finite rational n/d in lowest terms (d > 0), nan, or
\* an infinity with the sign in n.  Arithmetic is exact: the rounding of
\* IEEE doubles is left out, the special values are kept.
RECURSIVE GCD(_, _)
GCD(a, b) == IF b = 0 THEN a ELSE GCD(b, a % b)

Abs(i) == IF i < 0 THEN -i ELSE i

Fin(n, d) ==
    LET s == IF d < 0 THEN -1 ELSE 1
        g == GCD(Abs(n), Abs(d))
    IN  [k |-> "fin", n |-> (s * n) \div g, d |-> (s * d) \div g]

nan == [k |-> "nan", n |-> 0, d |-> 1]
inf == [k |-> "inf", n |-> 1, d |-> 1]
NegInf == [k |-> "inf", n |-> -1, d |-> 1]

Int2F(i) == Fin(i, 1)

Sign(x) == IF x.n > 0 THEN 1 ELSE IF x.n < 0 THEN -1 ELSE 0

Signed(s) == IF s > 0 THEN inf ELSE NegInf

\* -x, x + y, x - y, x * y
FNeg(x) == [x EXCEPT !.n = -x.n]

FAdd(x, y) ==
    IF x.k = "nan" \/ y.k = "nan" THEN nan
    ELSE IF x.k = "inf" /\ y.k = "inf" THEN (IF x.n = y.n THEN x ELSE nan)
    ELSE IF x.k = "inf" THEN x
    ELSE IF y.k = "inf" THEN y
    ELSE Fin(x.n * y.d + y.n * x.d, x.d * y.d)

FSub(x, y) == FAdd(x, FNeg(y))

FMul(x, y) ==
    IF x.k = "nan" \/ y.k = "nan" THEN nan
    ELSE IF x.k = "inf" \/ y.k = "inf"
    THEN (IF Sign(x) * Sign(y) = 0 THEN nan ELSE Signed(Sign(x) * Sign(y)))
    ELSE Fin(x.n * y.n, x.d * y.d)

\* x == 0.0, the case in which x / y raises ZeroDivisionError
IsZero(x) == x.k = "fin" /\ x.n = 0

\* x / y for y other than 0.0
FDiv(x, y) ==
    IF x.k = "nan" \/ y.k = "nan" THEN nan
    ELSE IF x.k = "inf" /\ y.k = "inf" THEN nan
    ELSE IF x.k = "inf" THEN Signed(Sign(x) * (IF Sign(y) < 0 THEN -1 ELSE 1))
    ELSE IF y.k = "inf" THEN Fin(0, 1)
    ELSE Fin(x.n * y.d, x.d * y.n)

\* x < y, x <= y, x > y, x >= y: False when either is nan
FLt(x, y) ==
    /\ x.k # "nan" /\ y.k # "nan"
    /\ IF x.k = "inf" THEN x.n < 0 /\ ~(y.k = "inf" /\ y.n < 0)
       ELSE IF y.k = "inf" THEN y.n > 0
       ELSE x.n * y.d < y.n * x.d

FLe(x, y) == x.k # "nan" /\ y.k # "nan" /\ ~FLt(y, x)

FGt(x, y) == FLt(y, x)

FGe(x, y) == FLe(y, x)

\* The builtins min(a, b) and max(a, b): the first argument unless the
\* second compares smaller (greater).
PyMin(a, b) == IF FLt(b, a) THEN b ELSE a

PyMax(a, b) == IF FGt(b, a) THEN b ELSE a

\* math.isnan
isnan(x) == x.k = "nan"


VARIABLES
    now,                 \* datetime.now(timezone.utc), in seconds
    window_seconds,      \* self.window_seconds
    max_buffer_size,     \* self.max_buffer_size
    alerts,              \* the Alert objects, by id
    _alert_buffer,       \* self._alert_buffer: ids of Alert objects
    _correlation_groups, \* self._correlation_groups, in insertion order
    next_uuid,           \* the next group_id uuid4() hands out
    ret,                 \* what the last ingest_alert returned: << >> is None
    upstream_service,    \* _is_downstream called on its own: first argument,
    candidate_service,   \*   second argument,
    answer,              \*   << >> before the call, << result >> after it
    pc,                  \* where each concurrent caller is in ingest_alert
    _lock,               \* self._lock: the caller that holds it, 0 when free
    running,             \* the task the event loop is running, 0 between tasks
    acquired,            \* the calls in the order they acquired the lock
    call,                \* each caller's Alert (0 before the call) and result
    seen,                \* what the last unlocked read returned
    slo_def,             \* the SLO definition record under evaluation
    calc,                \* a call of SLOBurnRateEngine.calculate: position and locals
    multi,               \* a call of SLOEngineAdapter.evaluate_multi_window
    _repo,               \* the rows of SLODefinitionRepository, by id
    slo_service          \* SLOService: its client, the call in progress, its result

engineVars == << now, window_seconds, max_buffer_size, alerts, _alert_buffer,
                 _correlation_groups, next_uuid, ret >>
queryVars == << upstream_service, candidate_service, answer >>
taskVars == << pc, _lock, running, acquired, call, seen >>
svcVars == << _repo, slo_service >>
sloVars == << slo_def, calc, multi, svcVars >>

vars == << engineVars, queryVars, taskVars, sloVars >>

\* dataclass Alert
Alert(service, tenant, ts) ==
    [service_name |-> service, tenant_id |-> tenant, timestamp |-> ts,
     is_root_cause |-> FALSE, correlated_group_id |-> None]

\* dataclass CorrelatedAlertGroup
CorrelatedAlertGroup(gid, root, related, tenant, started, count) ==
    [group_id |-> gid, root_cause |-> root, related_alerts |-> related,
     tenant_id |-> tenant, started_at |-> started, suppressed_count |-> count]

\* list[-n:]
PySuffix(s, n) ==
    IF n = 0 \/ n >= Len(s) THEN s ELSE SubSeq(s, Len(s) - n + 1, Len(s))

\* The engine's mutable state as one value.
EngineState(heap, buffer, groups, uuid) ==
    [alerts |-> heap, buffer |-> buffer, groups |-> groups, next_uuid |-> uuid]

\* _prune_stale_alerts without the deletion of stale groups (lines 319-327).
_prune_stale_alerts_KeepsGroups(st, t, window, cap) ==
    LET cutoff == t - window * 2
        kept == SelectSeq(st.buffer, LAMBDA a : st.alerts[a].timestamp > cutoff)
        capped == IF Len(kept) > cap THEN PySuffix(kept, cap) ELSE kept
    IN  [st EXCEPT !.buffer = capped]


\* AlertCorrelationEngine._prune_stale_alerts, run at wall-clock time t
_prune_stale_alerts(st, t, window, cap) ==
    LET cutoff == t - window * 2
        kept == SelectSeq(st.buffer, LAMBDA a : st.alerts[a].timestamp > cutoff)
        live == SelectSeq(st.groups, LAMBDA g : ~(g.started_at < cutoff))
        capped == IF Len(kept) > cap THEN PySuffix(kept, cap) ELSE kept
    IN  [st EXCEPT !.buffer = capped, !.groups = live]

\* self._alert_buffer.append(alert)
BufferAppend(st, a) == [st EXCEPT !.buffer = Append(st.buffer, a)]

\* FirstMatchingGroup without the tenant check of line 184.
FirstMatchingGroup_AnyTenant(st, a) ==
    LET matches == {i \in DOMAIN st.groups :
                      /\ st.groups[i].root_cause # None
                      /\ _is_downstream(st.alerts[st.groups[i].root_cause].service_name,
                                        st.alerts[a].service_name)}
    IN  IF matches = {} THEN 0
        ELSE CHOOSE i \in matches : \A j \in matches : i <= j

\* FirstMatchingGroup taking the last matching group instead of the first.
FirstMatchingGroup_Last(st, a) ==
    LET matches == {i \in DOMAIN st.groups :
                      /\ st.groups[i].tenant_id = st.alerts[a].tenant_id
                      /\ st.groups[i].root_cause # None
                      /\ _is_downstream(st.alerts[st.groups[i].root_cause].service_name,
                                        st.alerts[a].service_name)}
    IN  IF matches = {} THEN 0
        ELSE CHOOSE i \in matches : \A j \in matches : i >= j


\* Index of the first active group that suppresses alert a, 0 when none.
FirstMatchingGroup(st, a) ==
    LET matches == {i \in DOMAIN st.groups :
                      /\ st.groups[i].tenant_id = st.alerts[a].tenant_id
                      /\ st.groups[i].root_cause # None
                      /\ _is_downstream(st.alerts[st.groups[i].root_cause].service_name,
                                        st.alerts[a].service_name)}
    IN  IF matches = {} THEN 0
        ELSE CHOOSE i \in matches : \A j \in matches : i <= j

\* DownstreamAlerts without the window test of line 208.
DownstreamAlerts_NoWindow(st, a, window) ==
    LET tenant_alerts ==
            SelectSeq(st.buffer, LAMBDA b :
                /\ st.alerts[b].tenant_id = st.alerts[a].tenant_id
                /\ b # a)
    IN  SelectSeq(tenant_alerts, LAMBDA b :
            _is_downstream(st.alerts[a].service_name, st.alerts[b].service_name))

\* The two list comprehensions: tenant_alerts, then downstream_alerts.
DownstreamAlerts(st, a, window) ==
    LET tenant_alerts ==
            SelectSeq(st.buffer, LAMBDA b :
                /\ st.alerts[b].tenant_id = st.alerts[a].tenant_id
                /\ b # a
                /\ st.alerts[a].timestamp - st.alerts[b].timestamp <= window)
    IN  SelectSeq(tenant_alerts, LAMBDA b :
            _is_downstream(st.alerts[a].service_name, st.alerts[b].service_name))

\* Suppress without the increment of line 190.
Suppress_NoCount(st, a, m) ==
    LET g == st.groups[m] IN
    [st |-> [st EXCEPT
               !.groups[m].related_alerts = Append(g.related_alerts, a),
               !.alerts[a].correlated_group_id = g.group_id],
     ret |-> << >>]

\* Suppress that inserts the alert at the front of related_alerts.
Suppress_Prepend(st, a, m) ==
    LET g == st.groups[m] IN
    [st |-> [st EXCEPT
               !.groups[m].related_alerts = << a >> \o g.related_alerts,
               !.groups[m].suppressed_count = g.suppressed_count + 1,
               !.alerts[a].correlated_group_id = g.group_id],
     ret |-> << >>]

\* Lines 189-200: the alert joins group number m and is suppressed.
Suppress(st, a, m) ==
    LET g == st.groups[m] IN
    [st |-> [st EXCEPT
               !.groups[m].related_alerts = Append(g.related_alerts, a),
               !.groups[m].suppressed_count = g.suppressed_count + 1,
               !.alerts[a].correlated_group_id = g.group_id],
     ret |-> << >>]

\* NewRootCauseGroup without the loop of lines 227-228.
NewRootCauseGroup_NoStamp(st, a, down, t) ==
    LET gid == st.next_uuid
        group == CorrelatedAlertGroup(gid, a, down, st.alerts[a].tenant_id, t,
                                      Len(down))
    IN  [st |-> [st EXCEPT
                   !.alerts[a].is_root_cause = TRUE,
                   !.alerts[a].correlated_group_id = gid,
                   !.groups = Append(st.groups, group),
                   !.next_uuid = gid + 1],
         ret |-> << group >>]

\* Lines 217-238: the alert is the root cause of the buffered alerts down.
NewRootCauseGroup(st, a, down, t) ==
    LET gid == st.next_uuid
        group == CorrelatedAlertGroup(gid, a, down, st.alerts[a].tenant_id, t,
                                      Len(down))
    IN  [st |-> [st EXCEPT
                   !.alerts = [x \in DOMAIN st.alerts |->
                       IF x = a
                       THEN [st.alerts[x] EXCEPT !.is_root_cause = TRUE,
                                                 !.correlated_group_id = gid]
                       ELSE IF x \in Range(down)
                       THEN [st.alerts[x] EXCEPT !.correlated_group_id = gid]
                       ELSE st.alerts[x]],
                   !.groups = Append(st.groups, group),
                   !.next_uuid = gid + 1],
         ret |-> << group >>]

\* RegisterPotentialRootCause returning None instead of the group.
RegisterPotentialRootCause_ReturnsNone(st, a, t) ==
    LET gid == st.next_uuid
        group == CorrelatedAlertGroup(gid, a, << >>, st.alerts[a].tenant_id, t, 0)
    IN  [st |-> [st EXCEPT
                   !.alerts[a].is_root_cause = TRUE,
                   !.alerts[a].correlated_group_id = gid,
                   !.groups = Append(st.groups, group),
                   !.next_uuid = gid + 1],
         ret |-> << >>]

\* RegisterPotentialRootCause keeping one group per tenant and service: the
\* group already registered for the service is returned, no new one made.
RegisterPotentialRootCause_OncePerService(st, a, t) ==
    LET gid == st.next_uuid
        group == CorrelatedAlertGroup(gid, a, << >>, st.alerts[a].tenant_id, t, 0)
        same == {i \in DOMAIN st.groups :
                    /\ st.groups[i].tenant_id = st.alerts[a].tenant_id
                    /\ st.alerts[st.groups[i].root_cause].service_name =
                          st.alerts[a].service_name}
    IN  IF same # {}
        THEN [st |-> st, ret |-> << st.groups[CHOOSE i \in same : TRUE] >>]
        ELSE [st |-> [st EXCEPT
                        !.alerts[a].is_root_cause = TRUE,
                        !.alerts[a].correlated_group_id = gid,
                        !.groups = Append(st.groups, group),
                        !.next_uuid = gid + 1],
              ret |-> << group >>]


\* Lines 243-260: a known upstream service is registered before any
\* downstream alert has arrived.
RegisterPotentialRootCause(st, a, t) ==
    LET gid == st.next_uuid
        group == CorrelatedAlertGroup(gid, a, << >>, st.alerts[a].tenant_id, t, 0)
    IN  [st |-> [st EXCEPT
                   !.alerts[a].is_root_cause = TRUE,
                   !.alerts[a].correlated_group_id = gid,
                   !.groups = Append(st.groups, group),
                   !.next_uuid = gid + 1],
         ret |-> << group >>]

\* Standalone that stores the returned group in the active map.
Standalone_Registered(st, a, t) ==
    LET gid == st.next_uuid
        group == CorrelatedAlertGroup(gid, a, << >>, st.alerts[a].tenant_id, t, 0)
    IN  [st |-> [st EXCEPT !.groups = Append(st.groups, group),
                           !.next_uuid = gid + 1],
         ret |-> << group >>]

\* Line 263: a standalone group, returned and not stored.
Standalone(st, a, t) ==
    LET gid == st.next_uuid IN
    [st |-> [st EXCEPT !.next_uuid = gid + 1],
     ret |-> << CorrelatedAlertGroup(gid, a, << >>, st.alerts[a].tenant_id, t, 0) >>]

\* The body of ingest_alert after the append: the result is the new engine
\* state and the returned value (<< >> for None, << group >> otherwise).
Correlate(st, a, t, window) ==
    LET m == FirstMatchingGroup(st, a)
        down == DownstreamAlerts(st, a, window)
    IN  IF m # 0 THEN Suppress(st, a, m)
        ELSE IF down # << >> THEN NewRootCauseGroup(st, a, down, t)
        ELSE IF st.alerts[a].service_name \in DOMAIN SERVICE_DEPENDENCY_GRAPH
        THEN RegisterPotentialRootCause(st, a, t)
        ELSE Standalone(st, a, t)

\* AlertCorrelationEngine.ingest_alert of the Alert object a at time t
ingest_alert(st, a, t, window, cap) ==
    Correlate(BufferAppend(_prune_stale_alerts(st, t, window, cap), a), a, t, window)

Engine == EngineState(alerts, _alert_buffer, _correlation_groups, next_uuid)

\* ------------------------------------------------------- SLO definitions
\* The SLO definition records the evaluations are run on: the API accepts
\* target_percentage in [0, 100], window_days in 1..365 and thresholds of at
\* least 1.0 (api/schemas.py).
TargetPercentages == {Fin(999, 10), Int2F(50), Int2F(100)}
WindowDays == {1, 30}
FastBurnThresholds == {Fin(144, 10), Int2F(1)}
SlowBurnThresholds == {Int2F(6)}

SLODefinitions ==
    [target_percentage : TargetPercentages, window_days : WindowDays,
     fast_burn_threshold : FastBurnThresholds,
     slow_burn_threshold : SlowBurnThresholds]

\* What PrometheusClient.instant_query does on one call: it raises, or it
\* returns a response with an empty result list, with a first sample whose
\* value does not parse as a float, or with a first sample of value v.
Raises == [k |-> "raise", v |-> nan]
Empty == [k |-> "empty", v |-> nan]
Malformed == [k |-> "malformed", v |-> nan]
Sample(v) == [k |-> "sample", v |-> v]

\* The answers to the error-rate query of the burn-rate engine.
RatioAnswers ==
    {Raises, Empty, Malformed} \cup
    {Sample(v) : v \in {nan, inf, NegInf, Fin(-1, 2), Int2F(0), Fin(3, 500),
                        Fin(1, 50), Fin(1, 2), Fin(3, 2)}}

\* The answers to the event-count queries of the adapter.
CountAnswers ==
    {Raises, Empty, Malformed} \cup
    {Sample(Int2F(v)) : v \in {0, 50, 98, 100}}

\* --------------------------------------------------- SLOBurnRateEngine
fast_window_minutes == 5
slow_window_minutes == 60

\* dataclass BurnRateResult, without slo_id and calculated_at
BurnRateResult(target, days, total, current, consumed, fast_rate, slow_rate, fast_threshold, slow_threshold, fast_burning, slow_burning) ==
    [target_percentage |-> target, window_days |-> days,
     total_error_budget_minutes |-> total,
     current_error_budget_minutes |-> current,
     error_budget_consumed_percentage |-> consumed,
     fast_burn_rate |-> fast_rate, slow_burn_rate |-> slow_rate,
     fast_burn_threshold |-> fast_threshold,
     slow_burn_threshold |-> slow_threshold,
     is_fast_burning |-> fast_burning, is_slow_burning |-> slow_burning]

\* _query_scalar without the math.isnan test of line 204.
_query_scalar_KeepsNan(response) ==
    IF response.k = "sample" THEN response.v ELSE Int2F(0)


\* SLOBurnRateEngine._query_scalar, given what instant_query does
_query_scalar(response) ==
    IF response.k = "sample"
    THEN (IF ~isnan(response.v) THEN response.v ELSE Int2F(0))
    ELSE Int2F(0)

\* calculate with the thresholds compared by > instead of >=.
calculate_StrictlyAbove(def, fast_error_rate, slow_error_rate) ==
    LET slo_target == FDiv(def.target_percentage, Int2F(100))
        error_rate_target == FSub(Int2F(1), slo_target)
        fast_burn_rate ==
            IF FGt(error_rate_target, Int2F(0))
            THEN FDiv(fast_error_rate, error_rate_target) ELSE Int2F(0)
        slow_burn_rate ==
            IF FGt(error_rate_target, Int2F(0))
            THEN FDiv(slow_error_rate, error_rate_target) ELSE Int2F(0)
        window_minutes == def.window_days * 24 * 60
        total_error_budget_minutes == FMul(Int2F(window_minutes), error_rate_target)
        consumed_fraction ==
            PyMin(FMul(slow_burn_rate,
                       FDiv(Int2F(slow_window_minutes), Int2F(window_minutes))),
                  Int2F(1))
        current_error_budget_minutes ==
            FMul(total_error_budget_minutes, FSub(Int2F(1), consumed_fraction))
        error_budget_consumed_percentage == FMul(consumed_fraction, Int2F(100))
    IN  BurnRateResult(def.target_percentage, def.window_days,
                       total_error_budget_minutes,
                       PyMax(current_error_budget_minutes, Int2F(0)),
                       PyMin(error_budget_consumed_percentage, Int2F(100)),
                       fast_burn_rate, slow_burn_rate,
                       def.fast_burn_threshold, def.slow_burn_threshold,
                       FGt(fast_burn_rate, def.fast_burn_threshold),
                       FGt(slow_burn_rate, def.slow_burn_threshold))

\* calculate taking the consumed budget from the fast burn rate.
calculate_BudgetFromFastRate(def, fast_error_rate, slow_error_rate) ==
    LET slo_target == FDiv(def.target_percentage, Int2F(100))
        error_rate_target == FSub(Int2F(1), slo_target)
        fast_burn_rate ==
            IF FGt(error_rate_target, Int2F(0))
            THEN FDiv(fast_error_rate, error_rate_target) ELSE Int2F(0)
        slow_burn_rate ==
            IF FGt(error_rate_target, Int2F(0))
            THEN FDiv(slow_error_rate, error_rate_target) ELSE Int2F(0)
        window_minutes == def.window_days * 24 * 60
        total_error_budget_minutes == FMul(Int2F(window_minutes), error_rate_target)
        consumed_fraction ==
            PyMin(FMul(fast_burn_rate,
                       FDiv(Int2F(slow_window_minutes), Int2F(window_minutes))),
                  Int2F(1))
        current_error_budget_minutes ==
            FMul(total_error_budget_minutes, FSub(Int2F(1), consumed_fraction))
        error_budget_consumed_percentage == FMul(consumed_fraction, Int2F(100))
    IN  BurnRateResult(def.target_percentage, def.window_days,
                       total_error_budget_minutes,
                       PyMax(current_error_budget_minutes, Int2F(0)),
                       PyMin(error_budget_consumed_percentage, Int2F(100)),
                       fast_burn_rate, slow_burn_rate,
                       def.fast_burn_threshold, def.slow_burn_threshold,
                       FGe(fast_burn_rate, def.fast_burn_threshold),
                       FGe(slow_burn_rate, def.slow_burn_threshold))

\* SLOBurnRateEngine.calculate from line 125 on, for window_days >= 1
calculate(def, fast_error_rate, slow_error_rate) ==
    LET slo_target == FDiv(def.target_percentage, Int2F(100))
        error_rate_target == FSub(Int2F(1), slo_target)
        fast_burn_rate ==
            IF FGt(error_rate_target, Int2F(0))
            THEN FDiv(fast_error_rate, error_rate_target) ELSE Int2F(0)
        slow_burn_rate ==
            IF FGt(error_rate_target, Int2F(0))
            THEN FDiv(slow_error_rate, error_rate_target) ELSE Int2F(0)
        window_minutes == def.window_days * 24 * 60
        total_error_budget_minutes == FMul(Int2F(window_minutes), error_rate_target)
        consumed_fraction ==
            PyMin(FMul(slow_burn_rate,
                       FDiv(Int2F(slow_window_minutes), Int2F(window_minutes))),
                  Int2F(1))
        current_error_budget_minutes ==
            FMul(total_error_budget_minutes, FSub(Int2F(1), consumed_fraction))
        error_budget_consumed_percentage == FMul(consumed_fraction, Int2F(100))
    IN  BurnRateResult(def.target_percentage, def.window_days,
                       total_error_budget_minutes,
                       PyMax(current_error_budget_minutes, Int2F(0)),
                       PyMin(error_budget_consumed_percentage, Int2F(100)),
                       fast_burn_rate, slow_burn_rate,
                       def.fast_burn_threshold, def.slow_burn_threshold,
                       FGe(fast_burn_rate, def.fast_burn_threshold),
                       FGe(slow_burn_rate, def.slow_burn_threshold))

\* ------------------------------------------------------ SLOEngineAdapter
\* SLOEngineAdapter.__init__: the default thresholds
_fast_burn_threshold == Fin(144, 10)
_slow_burn_threshold == Int2F(6)

\* dataclass SLIResult, without sli_type, window, computed_at and labels
SLIResult(value, good_events, total_events) ==
    [value |-> value, good_events |-> good_events, total_events |-> total_events]

\* dataclass BurnRateWindow
BurnRateWindow(window, burn_rate, threshold, is_burning, error_rate, slo_target) ==
    [window |-> window, burn_rate |-> burn_rate, threshold |-> threshold,
     is_burning |-> is_burning, error_rate |-> error_rate,
     slo_target |-> slo_target]

\* dataclass MultiWindowBurnResult, without slo_id and evaluated_at
MultiWindowBurnResult(short_window, long_window, is_alerting, consumed_pct, remaining_minutes, total_minutes) ==
    [short_window |-> short_window, long_window |-> long_window,
     is_alerting |-> is_alerting, error_budget_consumed_pct |-> consumed_pct,
     error_budget_remaining_minutes |-> remaining_minutes,
     total_error_budget_minutes |-> total_minutes]

\* A call either returns a value or raises: raised is << >> or << name >>.
Returns(value) == [raised |-> << >>, value |-> << value >>]
Raise(exception) == [raised |-> << exception >>, value |-> << >>]

\* compute_sli taking the indicator of a window without events as 0.0.
compute_sli_NoEventsIsZero(num, den) ==
    LET query_raises == num.k = "raise" \/ den.k = "raise"
        good_raises == ~query_raises /\ num.k = "malformed"
        good_events ==
            IF ~query_raises /\ num.k = "sample" THEN num.v ELSE Int2F(0)
        total_raises == ~query_raises /\ ~good_raises /\ den.k = "malformed"
        total_events ==
            IF ~query_raises /\ ~good_raises /\ den.k = "sample"
            THEN den.v ELSE Int2F(0)
        labels_bound == ~query_raises /\ ~good_raises /\ ~total_raises
        sli_value ==
            IF FGt(total_events, Int2F(0))
            THEN FDiv(good_events, total_events) ELSE Int2F(0)
    IN  IF labels_bound
        THEN Returns(SLIResult(sli_value, good_events, total_events))
        ELSE Raise("UnboundLocalError")


\* SLOEngineAdapter.compute_sli, given what the numerator query and (when
\* the first returns) the denominator query do.  The local variable labels
\* is bound at line 217, inside the try block; line 249 reads it.
compute_sli(num, den) ==
    LET query_raises == num.k = "raise" \/ den.k = "raise"
        good_raises == ~query_raises /\ num.k = "malformed"
        good_events ==
            IF ~query_raises /\ num.k = "sample" THEN num.v ELSE Int2F(0)
        total_raises == ~query_raises /\ ~good_raises /\ den.k = "malformed"
        total_events ==
            IF ~query_raises /\ ~good_raises /\ den.k = "sample"
            THEN den.v ELSE Int2F(0)
        labels_bound == ~query_raises /\ ~good_raises /\ ~total_raises
        sli_value ==
            IF FGt(total_events, Int2F(0))
            THEN FDiv(good_events, total_events) ELSE Int2F(1)
    IN  IF labels_bound
        THEN Returns(SLIResult(sli_value, good_events, total_events))
        ELSE Raise("UnboundLocalError")

\* SLOEngineAdapter.compute_burn_rate_for_window
compute_burn_rate_for_window(num, den, target_percentage, window, threshold) ==
    LET sli == compute_sli(num, den) IN
    IF sli.raised # << >> THEN sli
    ELSE
        LET error_rate == FSub(Int2F(1), sli.value[1].value)
            slo_error_budget ==
                FSub(Int2F(1), FDiv(target_percentage, Int2F(100)))
            burn_rate ==
                IF FGt(slo_error_budget, Int2F(0))
                THEN FDiv(error_rate, slo_error_budget) ELSE Int2F(0)
            is_burning == FGe(burn_rate, threshold)
        IN  Returns(BurnRateWindow(window, burn_rate, threshold, is_burning,
                                   error_rate, target_percentage))

\* "x or y" for x: float | None, << >> being None: y when x is None or 0.0
PyOr(x, y) == IF x = << >> \/ IsZero(x[1]) THEN y ELSE x[1]

\* evaluate_multi_window alerting when either window is burning.
evaluate_multi_window_EitherWindow(def, short_window, long_window) ==
    LET is_alerting == short_window.is_burning \/ long_window.is_burning
        budget == FSub(Int2F(1), FDiv(def.target_percentage, Int2F(100)))
        total_budget_minutes == FMul(Int2F(def.window_days * 24 * 60), budget)
        avg_error_rate ==
            FDiv(FAdd(short_window.error_rate, long_window.error_rate), Int2F(2))
        consumed_pct ==
            PyMin(FMul(FDiv(avg_error_rate, budget), Int2F(100)), Int2F(100))
        remaining_minutes ==
            FMul(total_budget_minutes,
                 FSub(Int2F(1), FDiv(consumed_pct, Int2F(100))))
    IN  IF IsZero(budget)
        THEN Raise("ZeroDivisionError")
        ELSE Returns(MultiWindowBurnResult(short_window, long_window, is_alerting,
                                           consumed_pct,
                                           PyMax(remaining_minutes, Int2F(0)),
                                           total_budget_minutes))


\* SLOEngineAdapter.evaluate_multi_window from line 348 on
evaluate_multi_window(def, short_window, long_window) ==
    LET is_alerting == short_window.is_burning /\ long_window.is_burning
        budget == FSub(Int2F(1), FDiv(def.target_percentage, Int2F(100)))
        total_budget_minutes == FMul(Int2F(def.window_days * 24 * 60), budget)
        avg_error_rate ==
            FDiv(FAdd(short_window.error_rate, long_window.error_rate), Int2F(2))
        consumed_pct ==
            PyMin(FMul(FDiv(avg_error_rate, budget), Int2F(100)), Int2F(100))
        remaining_minutes ==
            FMul(total_budget_minutes,
                 FSub(Int2F(1), FDiv(consumed_pct, Int2F(100))))
    IN  IF IsZero(budget)
        THEN Raise("ZeroDivisionError")
        ELSE Returns(MultiWindowBurnResult(short_window, long_window, is_alerting,
                                           consumed_pct,
                                           PyMax(remaining_minutes, Int2F(0)),
                                           total_budget_minutes))


\* ------------------------------------------------------------- SLOService
\* The SLO definitions tenants create, and what the backend answers to the
\* error-rate queries of a service evaluation.
ServiceDefinitions ==
    {d \in SLODefinitions :
        /\ d.target_percentage = Fin(999, 10)
        /\ d.window_days = 30
        /\ d.fast_burn_threshold = Fin(144, 10)}
ServiceAnswers == {Raises, Sample(Int2F(0)), Sample(Fin(3, 500)), Sample(Fin(1, 50))}
SloIds == 1..MaxSlos

\* A row of obs_slo_definitions (core/models.py), << >> being NULL.
SLODefinition(tenant_id, def) ==
    [tenant_id |-> tenant_id, target_percentage |-> def.target_percentage,
     window_days |-> def.window_days,
     fast_burn_threshold |-> def.fast_burn_threshold,
     slow_burn_threshold |-> def.slow_burn_threshold,
     last_evaluated_at |-> << >>, last_status |-> "unknown",
     cached_fast_burn_rate |-> << >>, cached_slow_burn_rate |-> << >>,
     cached_error_budget_minutes |-> << >>]

\* SLOBurnRateResponse, without slo_id
SLOBurnRateResponse(current, total, consumed, fast_rate, slow_rate, fast_burning, slow_burning, calculated_at) ==
    [current_error_budget_minutes |-> current,
     total_error_budget_minutes |-> total,
     error_budget_consumed_percentage |-> consumed,
     fast_burn_rate |-> fast_rate, slow_burn_rate |-> slow_rate,
     is_fast_burning |-> fast_burning, is_slow_burning |-> slow_burning,
     calculated_at |-> calculated_at]

\* The tenant test with a row of any tenant passing for the caller's.
NotFoundForTenant_AnyTenant(model, tenant_id) == model = << >>

\* "model is None or model.tenant_id != tenant.tenant_id", model being what
\* get_by_id returned (<< >> is None)
NotFoundForTenant(model, tenant_id) ==
    model = << >> \/ model[1].tenant_id # tenant_id

\* SLOService._burn_rate_to_status
_burn_rate_to_status(result) ==
    IF result.is_fast_burning THEN "critical"
    ELSE IF result.is_slow_burning THEN "warning"
    ELSE "ok"

\* SLODefinitionRepository.update with the fields calculate_burn_rate
\* persists: no row, no write.
RepoUpdate(repo, slo_id, result, calculated_at) ==
    IF repo[slo_id] = << >> THEN repo
    ELSE [repo EXCEPT ![slo_id] =
            << [@[1] EXCEPT
                  !.cached_fast_burn_rate = << result.fast_burn_rate >>,
                  !.cached_slow_burn_rate = << result.slow_burn_rate >>,
                  !.cached_error_budget_minutes =
                      << result.current_error_budget_minutes >>,
                  !.last_evaluated_at = << calculated_at >>,
                  !.last_status = _burn_rate_to_status(result)] >>]

\* The response calculate_burn_rate builds from the row when the service
\* has no Prometheus client.
CachedResponse(model, t) ==
    SLOBurnRateResponse(
        PyOr(model.cached_error_budget_minutes, Int2F(0)),
        FMul(Int2F(model.window_days * 24 * 60),
             FSub(Int2F(1), FDiv(model.target_percentage, Int2F(100)))),
        Int2F(0),
        PyOr(model.cached_fast_burn_rate, Int2F(0)),
        PyOr(model.cached_slow_burn_rate, Int2F(0)),
        FALSE, FALSE,
        IF model.last_evaluated_at # << >> THEN model.last_evaluated_at[1] ELSE t)

\* No service call has been made; the repository is empty.
IdleService(prometheus) ==
    [prometheus |-> prometheus, pc |-> "idle", op |-> "none", slo_id |-> 0,
     tenant_id |-> "", model |-> << >>, fast_error_rate |-> << >>,
     result |-> << >>, ret |-> << >>, deleted |-> << >>,
     created |-> 0, calls |-> 0, queries |-> 0]

InitNoService ==
    /\ _repo = [i \in SloIds |-> << >>]
    /\ slo_service = IdleService(TRUE)


\* No evaluation has been started.
IdleCalc ==
    [pc |-> "idle", queried |-> << >>, fast_error_rate |-> << >>,
     slow_error_rate |-> << >>, result |-> << >>]

IdleMulti ==
    [pc |-> "idle", fast_burn_threshold |-> << >>, queried |-> << >>,
     sli |-> << >>, short_window |-> << >>, long_window |-> << >>,
     result |-> << >>, raised |-> << >>]

InitNoSLO ==
    /\ slo_def = [target_percentage |-> Fin(999, 10), window_days |-> 30,
                  fast_burn_threshold |-> Fin(144, 10),
                  slow_burn_threshold |-> Int2F(6)]
    /\ calc = IdleCalc
    /\ multi = IdleMulti
    /\ InitNoService

\* AlertCorrelationEngine.__init__
InitEngine ==
    /\ now = 0
    /\ window_seconds = MaxWindow
    /\ max_buffer_size = MaxBufferCap
    /\ alerts = << >>
    /\ _alert_buffer = << >>
    /\ _correlation_groups = << >>
    /\ next_uuid = 1
    /\ ret = << >>

\* No caller has started and self._lock = asyncio.Lock() is free.
InitTasks ==
    /\ pc = [t \in Callers |-> "idle"]
    /\ _lock = 0
    /\ running = 0
    /\ acquired = << >>
    /\ call = [t \in Callers |-> [alert |-> 0, ret |-> << >>]]
    /\ seen = << >>

\* No direct call of _is_downstream.
InitQuery ==
    /\ upstream_service = PC
    /\ candidate_service = PC
    /\ answer = << >>

Init == InitEngine /\ InitTasks /\ InitQuery /\ InitNoSLO

\* A caller builds an Alert and awaits engine.ingest_alert(alert): the route
\* handler of api/routes/alerting.py, or a test.  The timestamp is the
\* caller's (now - skew) or, with skew = 0, the default datetime.now().
IngestFrom(services, tenants, skews) ==
    /\ Len(alerts) < MaxAlerts
    /\ \E service \in services, tenant \in tenants, skew \in skews :
          LET a == Len(alerts) + 1
              heap == Append(alerts, Alert(service, tenant, now - skew))
              r == ingest_alert(EngineState(heap, _alert_buffer, _correlation_groups,
                                            next_uuid),
                                a, now, window_seconds, max_buffer_size)
          IN  /\ alerts' = r.st.alerts
              /\ _alert_buffer' = r.st.buffer
              /\ _correlation_groups' = r.st.groups
              /\ next_uuid' = r.st.next_uuid
              /\ ret' = r.ret
    /\ UNCHANGED << now, window_seconds, max_buffer_size, queryVars, sloVars, taskVars >>

\* Alerts stamped on arrival, from two tenants.
Ingest == IngestFrom(IngestServices, Tenants, {0})

\* Alerts of one tenant, some with a timestamp the caller supplied.
IngestBackdated == IngestFrom(BackdatedServices, {"tenant-A"}, {0, MaxSkew})

\* The wall clock advances by one second.
Tick ==
    /\ now < MaxTime
    /\ now' = now + 1
    /\ UNCHANGED << window_seconds, max_buffer_size, alerts, _alert_buffer,
                    _correlation_groups, next_uuid, ret, queryVars, sloVars, taskVars >>

Next == Ingest \/ Tick

Spec == Init /\ [][Next]_vars

\* The same engine fed with caller-supplied timestamps.
NextBackdated == IngestBackdated \/ Tick

SpecBackdated == Init /\ [][NextBackdated]_vars

\* ------------------------------------------------- _is_downstream alone
\* A test calls engine._is_downstream(upstream, candidate) on any two names.
InitDownstream ==
    /\ InitEngine /\ InitTasks /\ InitNoSLO
    /\ upstream_service \in AllServices
    /\ candidate_service \in AllServices
    /\ answer = << >>

CallIsDownstream ==
    /\ answer = << >>
    /\ answer' = << _is_downstream(upstream_service, candidate_service) >>
    /\ UNCHANGED << engineVars, taskVars, sloVars, upstream_service, candidate_service >>

SpecDownstream == InitDownstream /\ [][CallIsDownstream]_vars

\* ------------------------------------------------------ concurrent callers
\* The engine runs on one asyncio event loop: a task keeps the loop until it
\* awaits.  The body of "async with self._lock:" (lines 179-263) awaits
\* nothing, so the task that took the lock runs on until it returns.  The
\* result is the task that runs after task t has done the given step.
NextRunning_AwaitAfterAppend(t, step) ==
    IF step \in {"append", "return"} THEN 0 ELSE t

NextRunning(t, step) == IF step = "return" THEN 0 ELSE t

\* Leaving the "async with" block with the lock kept when None is returned.
LockOnExit_HeldWhenSuppressed(t, returned) == IF returned = << >> THEN t ELSE 0

\* Leaving the "async with self._lock:" block of task t, whatever the body
\* returned: the lock is released.
LockOnExit(t, returned) == 0

\* The event loop lets task t take its next step.
CanRun(t) == running \in {0, t}

\* A request handler builds its Alert and calls ingest_alert.
Call(t) ==
    /\ pc[t] = "idle"
    /\ running = 0
    /\ \E service \in ConcurrentServices :
          /\ alerts' = Append(alerts, Alert(service, "tenant-A", now))
          /\ call' = [call EXCEPT ![t].alert = Len(alerts) + 1]
    /\ pc' = [pc EXCEPT ![t] = "acquire"]
    /\ UNCHANGED << now, window_seconds, max_buffer_size, _alert_buffer,
                    _correlation_groups, next_uuid, ret, queryVars, sloVars,
                    _lock, running, acquired, seen >>

\* Line 178, "async with self._lock": the task waits while the lock is held.
Acquire(t) ==
    /\ pc[t] = "acquire"
    /\ CanRun(t)
    /\ _lock = 0
    /\ _lock' = t
    /\ acquired' = Append(acquired, [alert |-> call[t].alert, at |-> now])
    /\ running' = NextRunning(t, "acquire")
    /\ pc' = [pc EXCEPT ![t] = "prune"]
    /\ UNCHANGED << engineVars, queryVars, sloVars, call, seen >>

\* Line 179
PruneStep(t) ==
    /\ pc[t] = "prune"
    /\ CanRun(t)
    /\ LET st == _prune_stale_alerts(Engine, now, window_seconds, max_buffer_size) IN
          /\ _alert_buffer' = st.buffer
          /\ _correlation_groups' = st.groups
    /\ running' = NextRunning(t, "prune")
    /\ pc' = [pc EXCEPT ![t] = "append"]
    /\ UNCHANGED << now, window_seconds, max_buffer_size, alerts, next_uuid, ret,
                    queryVars, sloVars, _lock, acquired, call, seen >>

\* Line 180
AppendStep(t) ==
    /\ pc[t] = "append"
    /\ CanRun(t)
    /\ _alert_buffer' = BufferAppend(Engine, call[t].alert).buffer
    /\ running' = NextRunning(t, "append")
    /\ pc' = [pc EXCEPT ![t] = "correlate"]
    /\ UNCHANGED << now, window_seconds, max_buffer_size, alerts,
                    _correlation_groups, next_uuid, ret, queryVars, sloVars, _lock,
                    acquired, call, seen >>

\* Lines 182-263, then the lock is released as the "async with" block is left.
CorrelateStep(t) ==
    /\ pc[t] = "correlate"
    /\ CanRun(t)
    /\ LET r == Correlate(Engine, call[t].alert, now, window_seconds) IN
          /\ alerts' = r.st.alerts
          /\ _alert_buffer' = r.st.buffer
          /\ _correlation_groups' = r.st.groups
          /\ next_uuid' = r.st.next_uuid
          /\ ret' = r.ret
          /\ call' = [call EXCEPT ![t].ret = r.ret]
    /\ _lock' = LockOnExit(t, ret')
    /\ running' = NextRunning(t, "return")
    /\ pc' = [pc EXCEPT ![t] = "done"]
    /\ UNCHANGED << now, window_seconds, max_buffer_size, queryVars, sloVars, acquired, seen >>

\* No task runs for longer than the pruning horizon of 2 x window_seconds.
LongPause ==
    /\ running = 0
    /\ now + 2 * window_seconds + 1 <= MaxTime
    /\ now' = now + 2 * window_seconds + 1
    /\ UNCHANGED << window_seconds, max_buffer_size, alerts, _alert_buffer,
                    _correlation_groups, next_uuid, ret, queryVars, sloVars, taskVars >>

\* ----------------------------------------------------------------- readers
\* get_active_groups that leaves out the groups older than 2 x window_seconds.
get_active_groups_FilterStale ==
    SelectSeq(_correlation_groups,
              LAMBDA g : ~(g.started_at < now - 2 * window_seconds))

\* AlertCorrelationEngine.get_active_groups: list(self._correlation_groups.values())
get_active_groups == _correlation_groups

\* AlertCorrelationEngine.get_group: self._correlation_groups.get(group_id),
\* << >> for None.
get_group(group_id) ==
    SelectSeq(_correlation_groups, LAMBDA g : g.group_id = group_id)

\* AlertCorrelationEngine.get_statistics
RECURSIVE SumSuppressed(_)
SumSuppressed(groups) ==
    IF groups = << >> THEN 0
    ELSE Head(groups).suppressed_count + SumSuppressed(Tail(groups))

\* get_statistics that counts the groups with children instead of the children.
get_statistics_CountsGroups ==
    [active_groups |-> Len(_correlation_groups),
     buffered_alerts |-> Len(_alert_buffer),
     total_suppressed |->
        Len(SelectSeq(_correlation_groups, LAMBDA g : g.suppressed_count > 0))]


get_statistics ==
    [active_groups |-> Len(_correlation_groups),
     buffered_alerts |-> Len(_alert_buffer),
     total_suppressed |-> SumSuppressed(_correlation_groups)]

\* A route handler reads the engine without the lock: list_alert_groups
\* and get_correlation_statistics of api/routes/alerting.py.
Read ==
    /\ running = 0
    /\ seen' = << [statistics |-> get_statistics,
                   after |-> Len(acquired),
                   mid |-> _lock # 0] >>
    /\ UNCHANGED << engineVars, queryVars, sloVars, pc, _lock, running, acquired, call >>

NextConcurrent ==
    \/ \E t \in Callers : Call(t)
    \/ \E t \in Callers : Acquire(t)
    \/ \E t \in Callers : PruneStep(t)
    \/ \E t \in Callers : AppendStep(t)
    \/ \E t \in Callers : CorrelateStep(t)
    \/ LongPause
    \/ Read

SpecConcurrent == Init /\ [][NextConcurrent]_vars

\* The event loop is fair: a task that can take its next step, or can take
\* the lock, is run in the end.
FairScheduler ==
    \A t \in Callers :
        /\ WF_vars(Acquire(t))
        /\ WF_vars(PruneStep(t))
        /\ WF_vars(AppendStep(t))
        /\ WF_vars(CorrelateStep(t))

\* The callers alone: an unlocked reader takes no lock and holds no caller up.
NextCallers ==
    \/ \E t \in Callers : Call(t)
    \/ \E t \in Callers : Acquire(t)
    \/ \E t \in Callers : PruneStep(t)
    \/ \E t \in Callers : AppendStep(t)
    \/ \E t \in Callers : CorrelateStep(t)
    \/ LongPause

SpecConcurrentFair == Init /\ [][NextCallers]_vars /\ FairScheduler

\* ------------------------------------------------- readers between ingests
ReadServices == {PC, GE}

\* Alerts of one tenant, stamped on arrival.
IngestOneTenant == IngestFrom(ReadServices, {"tenant-A"}, {0})

\* A client calls the three read routes of api/routes/alerting.py, which
\* call get_active_groups(), get_group(id) for each group_id handed out so
\* far, and get_statistics().  seen keeps the last two such reads, with the
\* number of ingest_alert calls and the wall-clock time of each.
ReadEngine ==
    /\ seen' = PySuffix(seen, 1) \o
               << [groups |-> get_active_groups,
                   group |-> [id \in 1..(next_uuid - 1) |-> get_group(id)],
                   statistics |-> get_statistics,
                   ingests |-> Len(alerts),
                   at |-> now] >>
    /\ UNCHANGED << engineVars, queryVars, sloVars, pc, _lock, running, acquired, call >>

NextRead == IngestOneTenant \/ Tick \/ ReadEngine

SpecRead == Init /\ [][NextRead]_vars


\* ------------------------------------------- SLO evaluation, step by step
\* A caller holds one SLO definition and evaluates it once, with either
\* engine.
InitSLO ==
    /\ InitEngine /\ InitTasks /\ InitQuery
    /\ slo_def \in SLODefinitions
    /\ calc = IdleCalc
    /\ multi = IdleMulti
    /\ InitNoService

\* Line 114: calculate is called and awaits the fast-window query.
CalculateQueryFast ==
    /\ calc.pc = "idle" /\ multi.pc = "idle"
    /\ \E response \in RatioAnswers :
          calc' = [calc EXCEPT
                     !.pc = "slow",
                     !.queried = Append(@, [window |-> fast_window_minutes,
                                            answer |-> response]),
                     !.fast_error_rate = << _query_scalar(response) >>]
    /\ UNCHANGED << engineVars, queryVars, taskVars, slo_def, multi, svcVars >>

\* Line 115: the slow-window query.
CalculateQuerySlow ==
    /\ calc.pc = "slow"
    /\ \E response \in RatioAnswers :
          calc' = [calc EXCEPT
                     !.pc = "compute",
                     !.queried = Append(@, [window |-> slow_window_minutes,
                                            answer |-> response]),
                     !.slow_error_rate = << _query_scalar(response) >>]
    /\ UNCHANGED << engineVars, queryVars, taskVars, slo_def, multi, svcVars >>

\* Lines 125-157: the result is computed and returned.
CalculateReturn ==
    /\ calc.pc = "compute"
    /\ calc' = [calc EXCEPT
                  !.pc = "done",
                  !.result = << calculate(slo_def, calc.fast_error_rate[1],
                                          calc.slow_error_rate[1]) >>]
    /\ UNCHANGED << engineVars, queryVars, taskVars, slo_def, multi, svcVars >>

\* The SLIResult a compute_sli call returned, if it returned.
Computed(window, num, den) ==
    LET sli == compute_sli(num, den) IN
    IF sli.raised # << >> THEN << >>
    ELSE << [window |-> window, result |-> sli.value[1]] >>

\* The instant queries one compute_sli call issues, with what they did.
Queried(window, num, den) ==
    << [window |-> window, query |-> "numerator", answer |-> num] >> \o
    (IF num.k = "raise" THEN << >>
     ELSE << [window |-> window, query |-> "denominator", answer |-> den] >>)

\* Lines 327-337: evaluate_multi_window is called, with or without a
\* threshold override, and evaluates the 5-minute window.
EvaluateShortWindow ==
    /\ calc.pc = "idle" /\ multi.pc = "idle"
    /\ \E override \in {<< >>, << slo_def.fast_burn_threshold >>},
          num \in CountAnswers, den \in CountAnswers :
          LET fast_thresh == PyOr(override, _fast_burn_threshold)
              w == compute_burn_rate_for_window(num, den, slo_def.target_percentage,
                                                "5m", fast_thresh)
          IN  multi' = [multi EXCEPT
                          !.pc = IF w.raised # << >> THEN "raised" ELSE "long",
                          !.fast_burn_threshold = override,
                          !.queried = Queried("5m", num, den),
                          !.sli = Computed("5m", num, den),
                          !.short_window = w.value,
                          !.raised = w.raised]
    /\ UNCHANGED << engineVars, queryVars, taskVars, slo_def, calc, svcVars >>

\* Lines 339-346: the 1-hour window, against the same threshold.
EvaluateLongWindow ==
    /\ multi.pc = "long"
    /\ \E num \in CountAnswers, den \in CountAnswers :
          LET fast_thresh == PyOr(multi.fast_burn_threshold, _fast_burn_threshold)
              w == compute_burn_rate_for_window(num, den, slo_def.target_percentage,
                                                "1h", fast_thresh)
          IN  multi' = [multi EXCEPT
                          !.pc = IF w.raised # << >> THEN "raised" ELSE "combine",
                          !.queried = @ \o Queried("1h", num, den),
                          !.sli = @ \o Computed("1h", num, den),
                          !.long_window = w.value,
                          !.raised = w.raised]
    /\ UNCHANGED << engineVars, queryVars, taskVars, slo_def, calc, svcVars >>

\* Lines 348-373: the two windows are combined and the result returned.
EvaluateReturn ==
    /\ multi.pc = "combine"
    /\ LET r == evaluate_multi_window(slo_def, multi.short_window[1],
                                      multi.long_window[1])
       IN  multi' = [multi EXCEPT
                       !.pc = IF r.raised # << >> THEN "raised" ELSE "done",
                       !.result = r.value,
                       !.raised = r.raised]
    /\ UNCHANGED << engineVars, queryVars, taskVars, slo_def, calc, svcVars >>

NextSLO ==
    \/ CalculateQueryFast
    \/ CalculateQuerySlow
    \/ CalculateReturn
    \/ EvaluateShortWindow
    \/ EvaluateLongWindow
    \/ EvaluateReturn

SpecSLO == InitSLO /\ [][NextSLO]_vars


\* ------------------------------------------------ SLOService, step by step
\* A service over an empty repository, with or without a Prometheus client.
InitService ==
    /\ InitEngine /\ InitTasks /\ InitQuery
    /\ slo_def \in ServiceDefinitions
    /\ calc = IdleCalc
    /\ multi = IdleMulti
    /\ _repo = [i \in SloIds |-> << >>]
    /\ \E prometheus \in BOOLEAN : slo_service = IdleService(prometheus)

\* SLOService.create_slo: a tenant stores a definition under a fresh id.
CreateSlo ==
    /\ slo_service.created < MaxSlos
    /\ \E tenant_id \in Tenants, def \in ServiceDefinitions :
          /\ _repo' = [_repo EXCEPT ![slo_service.created + 1] =
                          << SLODefinition(tenant_id, def) >>]
          /\ slo_service' = [slo_service EXCEPT !.created = @ + 1]
    /\ UNCHANGED << engineVars, queryVars, taskVars, slo_def, calc, multi >>

\* SLOService.delete_slo
DeleteSlo ==
    /\ slo_service.calls < MaxServiceCalls
    /\ \E slo_id \in SloIds, tenant_id \in Tenants :
          LET existing == _repo[slo_id]
              refused == NotFoundForTenant(existing, tenant_id)
          IN  /\ _repo' = IF refused THEN _repo
                          ELSE [_repo EXCEPT ![slo_id] = << >>]
              /\ slo_service' =
                    [slo_service EXCEPT
                       !.calls = @ + 1, !.op = "delete_slo",
                       !.deleted = << [slo_id |-> slo_id, tenant_id |-> tenant_id,
                                       value |-> ~refused] >>]
    /\ UNCHANGED << engineVars, queryVars, taskVars, slo_def, calc, multi >>

\* Lines 240-257: calculate_burn_rate is called; it returns None, or the
\* cached values, or goes on to the engine.
CalculateBurnRateCall ==
    /\ slo_service.pc = "idle"
    /\ slo_service.calls < MaxServiceCalls
    /\ \E slo_id \in SloIds, tenant_id \in Tenants :
          LET model == _repo[slo_id]
              t == slo_service.calls + 1
              called == [slo_service EXCEPT
                           !.op = "calculate_burn_rate", !.calls = t,
                           !.slo_id = slo_id, !.tenant_id = tenant_id,
                           !.model = << >>, !.fast_error_rate = << >>,
                           !.result = << >>, !.ret = << >>]
          IN  slo_service' =
                 IF NotFoundForTenant(model, tenant_id) THEN called
                 ELSE IF ~slo_service.prometheus
                 THEN [called EXCEPT !.ret = << CachedResponse(model[1], t) >>]
                 ELSE [called EXCEPT !.pc = "fast", !.model = model]
    /\ UNCHANGED << engineVars, queryVars, taskVars, slo_def, calc, multi, _repo >>

\* Line 262, engine line 114: the fast-window query.
ServiceQueryFast ==
    /\ slo_service.pc = "fast"
    /\ \E response \in ServiceAnswers :
          slo_service' = [slo_service EXCEPT
                            !.pc = "slow", !.queries = @ + 1,
                            !.fast_error_rate = << _query_scalar(response) >>]
    /\ UNCHANGED << engineVars, queryVars, taskVars, slo_def, calc, multi, _repo >>

\* Engine lines 115-157: the slow-window query, and the result.
ServiceQuerySlow ==
    /\ slo_service.pc = "slow"
    /\ \E response \in ServiceAnswers :
          slo_service' =
             [slo_service EXCEPT
                !.pc = "persist", !.queries = @ + 1,
                !.result = << calculate(slo_service.model[1],
                                        slo_service.fast_error_rate[1],
                                        _query_scalar(response)) >>]
    /\ UNCHANGED << engineVars, queryVars, taskVars, slo_def, calc, multi, _repo >>

\* Lines 273-291: the result is persisted and returned.
ServicePersist ==
    /\ slo_service.pc = "persist"
    /\ LET result == slo_service.result[1] IN
       /\ _repo' = RepoUpdate(_repo, slo_service.slo_id, result, slo_service.calls)
       /\ slo_service' =
             [slo_service EXCEPT
                !.pc = "idle",
                !.ret = << SLOBurnRateResponse(
                              result.current_error_budget_minutes,
                              result.total_error_budget_minutes,
                              result.error_budget_consumed_percentage,
                              result.fast_burn_rate, result.slow_burn_rate,
                              result.is_fast_burning, result.is_slow_burning,
                              slo_service.calls) >>]
    /\ UNCHANGED << engineVars, queryVars, taskVars, slo_def, calc, multi >>

NextService ==
    \/ CreateSlo
    \/ DeleteSlo
    \/ CalculateBurnRateCall
    \/ ServiceQueryFast
    \/ ServiceQuerySlow
    \/ ServicePersist

SpecService == InitService /\ [][NextService]_vars



\* ------------------------------------------------------------ vocabulary
\* The alerts a group holds: its root cause and its related alerts.
Members(g) == {g.root_cause} \cup Range(g.related_alerts)

ActiveGroups == Range(_correlation_groups)

\* The alert of the latest ingest_alert call, and of the call before it.
LastAlert == Len(alerts)
PrevAlert == Len(alerts) - 1

\* -------------------------------------------------------------------- C1
\* C1: every Alert is the root cause or a related alert of at most one
\* active group.
AlertInAtMostOneGroup ==
    \A i, j \in DOMAIN _correlation_groups :
        i # j => Members(_correlation_groups[i]) \cap Members(_correlation_groups[j]) = {}

\* -------------------------------------------------------------------- C2
\* C2: suppressed_count equals len(related_alerts) in every active group
\* and in the group the last call returned.
SuppressedCountIsLength ==
    /\ \A g \in ActiveGroups : g.suppressed_count = Len(g.related_alerts)
    /\ \A k \in DOMAIN ret : ret[k].suppressed_count = Len(ret[k].related_alerts)

\* One root cause, then two downstream alerts of its tenant: one group
\* that counts two.
OneRootTwoChildren ==
    /\ Len(alerts) = 3
    /\ Len(_correlation_groups) = 1
    /\ _correlation_groups[1].root_cause = 1
    /\ _correlation_groups[1].related_alerts = << 2, 3 >>
    /\ _correlation_groups[1].suppressed_count = 2

\* -------------------------------------------------------------------- C3
\* C3: a group's root cause and related alerts all have the group's tenant,
\* in the active map and in the returned group, and an alert that was
\* suppressed (None returned) sits in a group of its own tenant.
TenantIsolation ==
    /\ \A g \in ActiveGroups \cup Range(ret) :
          \A a \in Members(g) : alerts[a].tenant_id = g.tenant_id
    /\ (alerts # << >> /\ ret = << >>) =>
          \E g \in ActiveGroups :
              /\ LastAlert \in Range(g.related_alerts)
              /\ g.tenant_id = alerts[LastAlert].tenant_id

\* A group of one tenant is active and an alert of the other tenant, of a
\* downstream service and with the same timestamp, was not suppressed.
OtherTenantNotSuppressed ==
    /\ Len(alerts) >= 2
    /\ ret # << >>
    /\ \E g \in ActiveGroups :
          /\ g.tenant_id # alerts[LastAlert].tenant_id
          /\ alerts[g.root_cause].timestamp = alerts[LastAlert].timestamp
          /\ _is_downstream(alerts[g.root_cause].service_name,
                            alerts[LastAlert].service_name)

\* -------------------------------------------------------------------- C4
\* An ingest_alert call is the step that adds an Alert object.
IngestStep == Len(alerts') = Len(alerts) + 1

\* What the prune at the start of a call made now leaves of the engine.
AfterPrune == _prune_stale_alerts(Engine, now, window_seconds, max_buffer_size)

\* A is an upstream alert and B an alert of the same tenant from a direct
\* dependent of A's service, the two timestamps within the window.
UpstreamAndDependent(heap, A, B) ==
    /\ GraphGet(heap[A].service_name) # << >>
    /\ heap[B].service_name \in Range(GraphGet(heap[A].service_name))
    /\ heap[A].tenant_id = heap[B].tenant_id
    /\ heap[A].timestamp - heap[B].timestamp <= window_seconds
    /\ heap[B].timestamp - heap[A].timestamp <= window_seconds

\* A is the root cause of an active group that holds B, and B points to it.
RootWithChild(heap, groups, A, B) ==
    \E g \in Range(groups) :
        /\ g.root_cause = A
        /\ B \in Range(g.related_alerts)
        /\ heap[B].correlated_group_id = g.group_id

\* A group of the tenant, other than group number except, whose root cause
\* is upstream of the service.
CompetingGroup(heap, groups, service, tenant, except) ==
    \E g \in Range(groups) :
        /\ g.group_id # except
        /\ g.tenant_id = tenant
        /\ _is_downstream(heap[g.root_cause].service_name, service)

\* C4 as stated: whichever of A and B is ingested first, after the two
\* ingests A is the root cause of an active group that holds B, whatever
\* the engine held before.
SuppressionInBothOrders ==
    Len(alerts) >= 2 =>
        \A A, B \in {PrevAlert, LastAlert} :
            (A # B /\ UpstreamAndDependent(alerts, A, B))
                => RootWithChild(alerts, _correlation_groups, A, B)

\* C4 as amended: the same, provided that the prune at the start of the second
\* call removes neither the buffered first alert nor A's group, that A was
\* not itself suppressed (no active group of the tenant has a root cause
\* upstream of A's service when A is ingested), and that no other active
\* group of the tenant has a root cause upstream of B's service when B is
\* ingested after A.
SuppressionInBothOrdersUnlessClaimed ==
    [][(IngestStep /\ Len(alerts) >= 1) =>
        LET new == Len(alerts')
            old == Len(alerts)
            tenant == alerts'[new].tenant_id
            P == AfterPrune
        IN  /\ ( /\ UpstreamAndDependent(alerts', new, old)
                 /\ old \in Range(P.buffer)
                 /\ ~CompetingGroup(alerts, P.groups, alerts'[new].service_name,
                                    tenant, None) )
               => RootWithChild(alerts', _correlation_groups', new, old)
            /\ ( /\ UpstreamAndDependent(alerts', old, new)
                 /\ \E g \in Range(P.groups) :
                       /\ g.root_cause = old
                       /\ ~CompetingGroup(alerts, P.groups, alerts'[new].service_name,
                                          tenant, g.group_id) )
               => RootWithChild(alerts', _correlation_groups', old, new)
      ]_vars

\* A downstream alert, then its upstream alert, then another downstream
\* alert: the upstream alert's group holds both.
BothOrdersGrouped ==
    /\ Len(alerts) = 3
    /\ UpstreamAndDependent(alerts, 2, 1)
    /\ UpstreamAndDependent(alerts, 2, 3)
    /\ RootWithChild(alerts, _correlation_groups, 2, 1)
    /\ RootWithChild(alerts, _correlation_groups, 2, 3)

\* -------------------------------------------------------------------- C5
\* C5: a call returns None exactly when it appended the alert to a group
\* that was active before the call, of the alert's tenant and with a root
\* cause upstream of the alert's service; any other call returns a group
\* whose root cause is the ingested alert.
NoneExactlyWhenSuppressed ==
    [][IngestStep =>
        LET new == Len(alerts') IN
        /\ (ret' = << >>) <=>
              \E g \in Range(_correlation_groups) :
                  /\ g.tenant_id = alerts'[new].tenant_id
                  /\ _is_downstream(alerts[g.root_cause].service_name,
                                    alerts'[new].service_name)
                  /\ \E h \in Range(_correlation_groups') :
                        /\ h.group_id = g.group_id
                        /\ h.related_alerts = Append(g.related_alerts, new)
        /\ (ret' # << >>) => (Len(ret') = 1 /\ ret'[1].root_cause = new)
      ]_vars

\* The last call returned None and its alert is in a group rooted upstream.
LastAlertSuppressed ==
    /\ alerts # << >>
    /\ ret = << >>
    /\ \E g \in ActiveGroups :
          /\ LastAlert \in Range(g.related_alerts)
          /\ _is_downstream(alerts[g.root_cause].service_name,
                            alerts[LastAlert].service_name)

\* -------------------------------------------------------------------- C6
\* The buffered alert b is of the new alert's tenant and downstream of it.
BufferedDownstream(heap, new, b) ==
    /\ b # new
    /\ heap[b].tenant_id = heap[new].tenant_id
    /\ _is_downstream(heap[new].service_name, heap[b].service_name)

\* C6 as stated: of the alerts in the buffer when the upstream alert is
\* ingested, one timestamped more than window_seconds before it is in no
\* group of that alert, and one timestamped less than window_seconds before
\* it is in the related_alerts of the group returned for it.
WindowBoundary ==
    [][IngestStep =>
        LET new == Len(alerts') IN
        \A b \in Range(_alert_buffer) :
            BufferedDownstream(alerts', new, b) =>
                LET before == alerts'[new].timestamp - alerts'[b].timestamp IN
                /\ before > window_seconds =>
                      \A g \in Range(_correlation_groups') \cup Range(ret') :
                          g.root_cause = new => b \notin Range(g.related_alerts)
                /\ (0 <= before /\ before < window_seconds /\ ret' # << >>) =>
                      b \in Range(ret'[1].related_alerts)
      ]_vars

\* C6 as amended: the second half holds of the buffered alerts that the
\* prune at the start of the call leaves in the buffer.
WindowBoundaryAfterPrune ==
    [][IngestStep =>
        LET new == Len(alerts') IN
        \A b \in Range(_alert_buffer) :
            BufferedDownstream(alerts', new, b) =>
                LET before == alerts'[new].timestamp - alerts'[b].timestamp IN
                /\ before > window_seconds =>
                      \A g \in Range(_correlation_groups') \cup Range(ret') :
                          g.root_cause = new => b \notin Range(g.related_alerts)
                /\ ( /\ 0 <= before /\ before < window_seconds /\ ret' # << >>
                     /\ b \in Range(AfterPrune.buffer) ) =>
                      b \in Range(ret'[1].related_alerts)
      ]_vars

\* Three buffered alerts: the third is the root cause of the second, which
\* is one second older, and not of the first, which is older than the window.
InsideAndOutsideWindow ==
    /\ Len(alerts) = 3
    /\ _alert_buffer = << 1, 2, 3 >>
    /\ BufferedDownstream(alerts, 3, 1)
    /\ BufferedDownstream(alerts, 3, 2)
    /\ alerts[3].timestamp - alerts[1].timestamp > window_seconds
    /\ alerts[3].timestamp - alerts[2].timestamp \in 1..(window_seconds - 1)
    /\ \E g \in ActiveGroups : g.root_cause = 3 /\ g.related_alerts = << 2 >>

\* -------------------------------------------------------------------- C7
\* The group's started_at is older than 2 x window_seconds.
Stale(g) == g.started_at < now - 2 * window_seconds

\* C7: no group that get_active_groups() returns, and no group that
\* get_group(id) returns for any id handed out, is stale by the wall clock.
StaleGroupsInvisible ==
    /\ \A k \in DOMAIN get_active_groups : ~Stale(get_active_groups[k])
    /\ \A id \in 1..(next_uuid - 1) : \A g \in Range(get_group(id)) : ~Stale(g)

\* ------------------------------------------------------------------- C10
\* C10: the number of buffered alerts a caller can observe between two
\* calls never exceeds max_buffer_size.
BufferWithinCap == get_statistics.buffered_alerts <= max_buffer_size

\* -------------------------------------------------------------------- C8
\* The callers that are inside "async with self._lock".
InCriticalSection == {t \in Callers : pc[t] \in {"prune", "append", "correlate"}}

\* The Alert objects as their callers built them.
FreshAlerts ==
    [i \in DOMAIN alerts |->
        Alert(alerts[i].service_name, alerts[i].tenant_id, alerts[i].timestamp)]

\* The first k calls run one after another, in the order of acquired, on a
\* new engine: the engine they leave and what the k-th returns.
RECURSIVE Serial(_)
Serial(k) ==
    IF k = 0
    THEN [st |-> EngineState(FreshAlerts, << >>, << >>, 1), ret |-> << >>]
    ELSE ingest_alert(Serial(k - 1).st, acquired[k].alert, acquired[k].at,
                      window_seconds, max_buffer_size)

StatisticsOf(st) ==
    [active_groups |-> Len(st.groups),
     buffered_alerts |-> Len(st.buffer),
     total_suppressed |-> SumSuppressed(st.groups)]

\* C8: at most one caller is inside the critical section, and it holds the
\* lock; whenever the lock is free the engine is what the calls made so far
\* leave when run one after another in the order they took the lock, and
\* each finished call returned what it returns in that serial run; an
\* unlocked reader never runs while an ingestion is under way, and what it
\* reads is the engine after a whole number of ingestions.
IngestIsAtomic ==
    /\ Cardinality(InCriticalSection) <= 1
    /\ InCriticalSection = (IF _lock = 0 THEN {} ELSE {_lock})
    /\ _lock = 0 =>
          /\ Engine = Serial(Len(acquired)).st
          /\ \A k \in DOMAIN acquired : \A t \in Callers :
                (call[t].alert = acquired[k].alert /\ pc[t] = "done")
                    => call[t].ret = Serial(k).ret
    /\ \A k \in DOMAIN seen :
          /\ ~seen[k].mid
          /\ seen[k].statistics = StatisticsOf(Serial(seen[k].after).st)

\* Every caller has returned, the caller that built its alert last took the
\* lock first, one call was suppressed, and a read fell between two
\* ingestions.
OvertakenAndRead ==
    /\ \A t \in Callers : pc[t] = "done"
    /\ acquired[1].alert > acquired[2].alert
    /\ \E t \in Callers : call[t].ret = << >>
    /\ seen # << >>
    /\ seen[1].after = 1

\* -------------------------------------------------------------------- C9
\* The direct dependents of a service.
Direct(service) == Range(GraphGet(service))

\* The services reached from a service in one to hops steps of the graph.
RECURSIVE Within(_, _)
Within(service, hops) ==
    IF hops = 0 THEN {}
    ELSE Direct(service) \cup UNION {Within(d, hops - 1) : d \in Direct(service)}

\* C9: _is_downstream(upstream, candidate) is true exactly when candidate
\* is a direct dependent of upstream or of one of its direct dependents.
DownstreamIsOneTransitiveLevel ==
    \A k \in DOMAIN answer :
        answer[k] <=>
            \/ candidate_service \in Direct(upstream_service)
            \/ \E d \in Direct(upstream_service) : candidate_service \in Direct(d)

\* aumos-text-engine is three hops from aumos-platform-core and no less,
\* and is not downstream of it.
ThreeHopsIsNotDownstream ==
    /\ upstream_service = PC
    /\ candidate_service = TE
    /\ TE \in Within(PC, 3) \ Within(PC, 2)
    /\ answer = << FALSE >>

\* ------------------------------------------------------------------- C11
GroupIds(groups) == {groups[i].group_id : i \in DOMAIN groups}

\* The buffer holds an alert of the new alert's tenant, of a downstream
\* service and timestamped no more than window_seconds before it.
Qualifying(heap, buffer, new) ==
    \E b \in Range(buffer) :
        /\ BufferedDownstream(heap, new, b)
        /\ heap[new].timestamp - heap[b].timestamp <= window_seconds

\* The group a call returned is in the active map exactly when the alert has
\* a qualifying buffered downstream alert or its service is a key of the
\* dependency graph.
StoredIffRootOrKnownUpstream ==
    IngestStep /\ ret' # << >> =>
        LET new == Len(alerts') IN
        (ret'[1].group_id \in GroupIds(_correlation_groups')) <=>
            \/ Qualifying(alerts', AfterPrune.buffer, new)
            \/ alerts'[new].service_name \in DOMAIN SERVICE_DEPENDENCY_GRAPH

\* The call returned a group that is not in the active map.
StandaloneStep ==
    /\ IngestStep
    /\ ret' # << >>
    /\ ret'[1].group_id \notin GroupIds(_correlation_groups')

\* A group enters the active map only in the call that returns it, under a
\* group_id no group had before: a group returned standalone is never in the
\* map later, where alone a group is appended to.
OnlyFreshGroupsEnter ==
    \A g \in Range(_correlation_groups') :
        \/ g.group_id \in GroupIds(_correlation_groups)
        \/ (g.group_id >= next_uuid /\ ret' = << g >>)

\* C11 as stated: the returned group is stored if and only if the alert is
\* a root cause or a known upstream; a standalone call leaves the active
\* map as it was before the call and the alert in the buffer, and the
\* standalone group never enters the map.
StandaloneLeavesGroupsAlone ==
    [][ /\ StoredIffRootOrKnownUpstream
        /\ StandaloneStep =>
              /\ _correlation_groups' = _correlation_groups
              /\ Len(alerts') \in Range(_alert_buffer')
        /\ OnlyFreshGroupsEnter
      ]_vars

\* C11 as amended: a standalone call changes the active map only by what
\* the prune at its start removes.
StandaloneOnlyPrunesGroups ==
    [][ /\ StoredIffRootOrKnownUpstream
        /\ StandaloneStep =>
              /\ _correlation_groups' = AfterPrune.groups
              /\ Len(alerts') \in Range(_alert_buffer')
        /\ OnlyFreshGroupsEnter
      ]_vars

\* The last call returned a standalone group while another group is active;
\* its alert is buffered and points to no group.
StandaloneNextToActiveGroup ==
    /\ Len(alerts) >= 2
    /\ ret # << >>
    /\ ret[1].root_cause = LastAlert
    /\ ret[1].group_id \notin GroupIds(_correlation_groups)
    /\ _correlation_groups # << >>
    /\ LastAlert \in Range(_alert_buffer)
    /\ alerts[LastAlert].correlated_group_id = None


\* ------------------------------------------------------------------- C12
\* What a read returned, without when it was made.
Returned(r) == [groups |-> r.groups, group |-> r.group, statistics |-> r.statistics]

RelatedWithinWindowBothWays ==
    [][(IngestStep /\ ret' # << >>) =>
        LET new == Len(alerts')
            group == ret'[1]
        IN  /\ \A b \in Range(group.related_alerts) :
                  /\ alerts'[new].timestamp - alerts'[b].timestamp <= window_seconds
                  /\ alerts'[b].timestamp - alerts'[new].timestamp <= window_seconds
            /\ \A b \in Range(_alert_buffer) :
                  ( /\ BufferedDownstream(alerts', new, b)
                    /\ alerts'[b].timestamp - alerts'[new].timestamp > window_seconds )
                  => b \notin Range(group.related_alerts)
      ]_vars


\* ------------------------------------------------------------------- C14
\* C14: a group that is in the active map before and after a step keeps its
\* group_id, tenant_id, root_cause and started_at, and is either unchanged
\* or has the newly ingested alert appended at the end of related_alerts
\* and suppressed_count incremented by one.
GroupsOnlyGrowByAppend ==
    [][\A g \in Range(_correlation_groups) : \A h \in Range(_correlation_groups') :
          h.group_id = g.group_id =>
              /\ h.tenant_id = g.tenant_id
              /\ h.root_cause = g.root_cause
              /\ h.started_at = g.started_at
              /\ \/ h = g
                 \/ /\ IngestStep
                    /\ h.related_alerts = Append(g.related_alerts, Len(alerts'))
                    /\ h.suppressed_count = g.suppressed_count + 1
      ]_vars

\* A group created with one buffered downstream alert has since had a
\* later alert appended after it.
CreatedThenAppended ==
    \E g \in ActiveGroups :
        /\ g.root_cause = 2
        /\ g.related_alerts = << 1, 3 >>
        /\ g.suppressed_count = 2


\* ------------------------------------------------------------------- C15
\* The related alerts of all active groups, each with its place.
SuppressedPlaces ==
    {<< i, k >> \in (DOMAIN _correlation_groups) \X (1..MaxAlerts) :
        k \in DOMAIN _correlation_groups[i].related_alerts}

\* get_statistics() reports the number of groups in the active map, the
\* buffer length and the number of related alerts over all active groups;
\* an engine that has ingested nothing reports 0, 0 and 0.
StatisticsAccurate ==
    /\ get_statistics.active_groups = Cardinality(DOMAIN _correlation_groups)
    /\ get_statistics.buffered_alerts = Cardinality(DOMAIN _alert_buffer)
    /\ get_statistics.total_suppressed = Cardinality(SuppressedPlaces)
    /\ alerts = << >> =>
          get_statistics = [active_groups |-> 0, buffered_alerts |-> 0,
                            total_suppressed |-> 0]

\* C15 as stated: the statistics are accurate in every state, and a
\* standalone ingest leaves active_groups and total_suppressed as they were
\* before the call.
StatisticsAccurateStandaloneKeeps ==
    /\ []StatisticsAccurate
    /\ [][StandaloneStep =>
            /\ get_statistics'.active_groups = get_statistics.active_groups
            /\ get_statistics'.total_suppressed = get_statistics.total_suppressed
         ]_vars

\* C15 as amended: a standalone ingest leaves active_groups and
\* total_suppressed as the prune at its start leaves them.
StatisticsAccurateStandalonePrunes ==
    /\ []StatisticsAccurate
    /\ [][StandaloneStep =>
            /\ get_statistics'.active_groups = StatisticsOf(AfterPrune).active_groups
            /\ get_statistics'.total_suppressed = StatisticsOf(AfterPrune).total_suppressed
            /\ get_statistics'.buffered_alerts = StatisticsOf(AfterPrune).buffered_alerts + 1
         ]_vars

\* A standalone ingest next to a group with one suppressed alert: one
\* active group, three buffered alerts, one suppressed.
StatisticsAfterStandalone ==
    /\ ret # << >>
    /\ ret[1].group_id \notin GroupIds(_correlation_groups)
    /\ get_statistics = [active_groups |-> 1, buffered_alerts |-> 3,
                         total_suppressed |-> 1]


\* ------------------------------------------------------------------- C16
\* x lies in the closed interval [lo, hi].
InInterval(x, lo, hi) == FLe(lo, x) /\ FLe(x, hi)

\* C16: in every BurnRateResult that calculate returns,
\* error_budget_consumed_percentage lies in [0, 100] and
\* current_error_budget_minutes in [0, total_error_budget_minutes].
BudgetWithinBounds ==
    \A k \in DOMAIN calc.result :
        LET r == calc.result[k] IN
        /\ InInterval(r.error_budget_consumed_percentage, Int2F(0), Int2F(100))
        /\ InInterval(r.current_error_budget_minutes, Int2F(0),
                    r.total_error_budget_minutes)

\* ------------------------------------------------------------------- C17
\* The query answered with no usable number: it raised, returned no
\* sample, or returned nan.
NoData(response) == response \in {Raises, Empty, Sample(nan)}

\* C17: calculate does not stop at a query that raises, returns an empty
\* result or returns nan: the error rate of that window is 0, both windows
\* are queried, and the result that is returned has burn rate 0 for that
\* window.
BackendFailureIsZero ==
    /\ calc.pc \in {"idle", "slow", "compute", "done"}
    /\ (calc.fast_error_rate # << >> /\ NoData(calc.queried[1].answer))
          => calc.fast_error_rate[1] = Int2F(0)
    /\ (calc.slow_error_rate # << >> /\ NoData(calc.queried[2].answer))
          => calc.slow_error_rate[1] = Int2F(0)
    /\ calc.pc = "done" =>
          /\ Len(calc.queried) = 2
          /\ calc.queried[1].window = fast_window_minutes
          /\ calc.queried[2].window = slow_window_minutes
          /\ Len(calc.result) = 1
          /\ NoData(calc.queried[1].answer)
                => calc.result[1].fast_burn_rate = Int2F(0)
          /\ NoData(calc.queried[2].answer)
                => calc.result[1].slow_burn_rate = Int2F(0)

\* The fast-window query raised and the slow-window query returned an error
\* rate of 2 %: the result has fast burn rate 0 and, for a target of 99.9,
\* slow burn rate 20.
FastQueryRaisedSlowEvaluated ==
    /\ calc.pc = "done"
    /\ slo_def.target_percentage = Fin(999, 10)
    /\ calc.queried[1].answer = Raises
    /\ calc.queried[2].answer = Sample(Fin(1, 50))
    /\ calc.result[1].fast_burn_rate = Int2F(0)
    /\ calc.result[1].slow_burn_rate = Int2F(20)
    /\ calc.result[1].is_slow_burning
    /\ ~calc.result[1].is_fast_burning


\* ------------------------------------------------------------------- C18
\* C18: when an instant query of a compute_sli call has raised, the
\* evaluation has raised nothing and compute_sli has returned, for that
\* window, an SLIResult with good_events = 0, total_events = 0 and
\* value = 1.0.
BackendFailureNeverPropagates ==
    \A i \in DOMAIN multi.queried :
        multi.queried[i].answer = Raises =>
            /\ multi.raised = << >>
            /\ \E j \in DOMAIN multi.sli :
                  /\ multi.sli[j].window = multi.queried[i].window
                  /\ multi.sli[j].result = SLIResult(Int2F(1), Int2F(0), Int2F(0))


\* ------------------------------------------------------------------- C19
\* The error-rate query of a window without events: 0/0 is nan, or there
\* is no sample at all.
NoTrafficRatio(response) == response \in {Empty, Sample(nan)}

\* The count queries of a window without events: both return, the total
\* with no sample or with the count 0.
NoTrafficCounts(window) ==
    \E i, j \in DOMAIN multi.queried :
        /\ multi.queried[i].window = window
        /\ multi.queried[i].query = "numerator"
        /\ multi.queried[i].answer.k \in {"empty", "sample"}
        /\ multi.queried[j].window = window
        /\ multi.queried[j].query = "denominator"
        /\ multi.queried[j].answer \in {Empty, Sample(Int2F(0))}

\* The window was evaluated without an exception: error rate 0, burn rate
\* 0, not burning.
QuietWindow(w) ==
    /\ Len(w) = 1
    /\ w[1].error_rate = Int2F(0)
    /\ w[1].burn_rate = Int2F(0)
    /\ ~w[1].is_burning

\* C19: a window without events has error rate 0 and, in the result, burn
\* rate 0 and a false burning flag, in calculate (is_fast_burning,
\* is_slow_burning) and in the adapter (BurnRateWindow.is_burning), for
\* every threshold of an SLO definition and the adapter's default.
ZeroTrafficNeverBurns ==
    /\ (calc.fast_error_rate # << >> /\ NoTrafficRatio(calc.queried[1].answer))
          => /\ calc.fast_error_rate[1] = Int2F(0)
             /\ calc.pc = "done" =>
                   /\ calc.result[1].fast_burn_rate = Int2F(0)
                   /\ ~calc.result[1].is_fast_burning
    /\ (calc.slow_error_rate # << >> /\ NoTrafficRatio(calc.queried[2].answer))
          => /\ calc.slow_error_rate[1] = Int2F(0)
             /\ calc.pc = "done" =>
                   /\ calc.result[1].slow_burn_rate = Int2F(0)
                   /\ ~calc.result[1].is_slow_burning
    /\ NoTrafficCounts("5m") => QuietWindow(multi.short_window)
    /\ NoTrafficCounts("1h") => QuietWindow(multi.long_window)
    /\ (NoTrafficCounts("5m") \/ NoTrafficCounts("1h")) =>
          \A k \in DOMAIN multi.result : ~multi.result[k].is_alerting

\* An evaluation against the lowest threshold, 1.0, whose 5-minute window
\* has a total of 0 events and whose 1-hour window has no total sample:
\* both windows have burn rate 0 and nothing alerts.
NoEventsInBothWindows ==
    /\ multi.pc = "done"
    /\ multi.short_window[1].threshold = Int2F(1)
    /\ multi.queried[2].answer = Sample(Int2F(0))
    /\ multi.queried[4].answer = Empty
    /\ QuietWindow(multi.short_window)
    /\ QuietWindow(multi.long_window)
    /\ ~multi.result[1].is_alerting


\* ------------------------------------------------------------------- C20
\* The fast-burn threshold in effect: the override of the call when one was
\* given, else the adapter's default.
ThresholdInEffect ==
    IF multi.fast_burn_threshold # << >>
    THEN multi.fast_burn_threshold[1] ELSE _fast_burn_threshold

BudgetFraction == FSub(Int2F(1), FDiv(slo_def.target_percentage, Int2F(100)))

WindowMinutes == slo_def.window_days * 24 * 60

\* C22: the budget fields calculate returns follow the reference formula:
\* total = window minutes * (1 - target/100); consumed fraction = min(slow
\* burn rate * slow window minutes / window minutes, 1); current =
\* max(total * (1 - consumed fraction), 0); consumed percentage =
\* min(consumed fraction * 100, 100).
BudgetFollowsReferenceFormula ==
    calc.pc = "done" =>
        LET r == calc.result[1]
            total == FMul(Int2F(WindowMinutes), BudgetFraction)
            share == FDiv(Int2F(slow_window_minutes), Int2F(WindowMinutes))
            spent == FMul(r.slow_burn_rate, share)
            consumed_fraction == IF FLt(Int2F(1), spent) THEN Int2F(1) ELSE spent
            left == FMul(total, FSub(Int2F(1), consumed_fraction))
            pct == FMul(consumed_fraction, Int2F(100))
        IN  /\ r.total_error_budget_minutes = total
            /\ r.current_error_budget_minutes =
                  (IF FLt(left, Int2F(0)) THEN Int2F(0) ELSE left)
            /\ r.error_budget_consumed_percentage =
                  (IF FLt(Int2F(100), pct) THEN Int2F(100) ELSE pct)

\* Target 99.9 over 30 days: a total of 43.2 minutes; with a fast error
\* rate of 0.5 and a slow error rate of 0.02 the slow burn rate 20 spends
\* 20 * 60/43200 of it, 1/36, which leaves 42 minutes.
FortyThreePointTwoMinutes ==
    /\ calc.pc = "done"
    /\ slo_def.target_percentage = Fin(999, 10)
    /\ slo_def.window_days = 30
    /\ calc.fast_error_rate = << Fin(1, 2) >>
    /\ calc.slow_error_rate = << Fin(1, 50) >>
    /\ calc.result[1].total_error_budget_minutes = Fin(432, 10)
    /\ calc.result[1].current_error_budget_minutes = Int2F(42)
    /\ calc.result[1].error_budget_consumed_percentage = Fin(100, 36)


\* ------------------------------------------------------------------- C23
\* One count query of the window returned no sample while the other
\* returned a positive count.
MissingData(window) ==
    \E i, j \in DOMAIN multi.queried :
        /\ multi.queried[i].window = window
        /\ multi.queried[j].window = window
        /\ multi.queried[i].query # multi.queried[j].query
        /\ multi.queried[i].answer = Empty
        /\ multi.queried[j].answer.k = "sample"
        /\ FGt(multi.queried[j].answer.v, Int2F(0))

\* C23: a window in which the numerator query returned no sample and the
\* denominator query a positive total, or the reverse, has error rate 0
\* and is not burning, and an evaluation with such a window does not alert.
MissingDataNeverBurns ==
    /\ MissingData("5m") => QuietWindow(multi.short_window)
    /\ MissingData("1h") => QuietWindow(multi.long_window)
    /\ (MissingData("5m") \/ MissingData("1h")) =>
          \A k \in DOMAIN multi.result : ~multi.result[k].is_alerting


\* ------------------------------------------------------------------- C24
\* C24: the status calculate_burn_rate persists and the verdict it returns
\* are critical only when the burn rates of both windows reach their
\* thresholds, the 5-minute one the fast threshold and the 1-hour one the
\* slow threshold; never on the 5-minute window alone.
CriticalNeedsBothWindows ==
    \A i \in SloIds :
        (_repo[i] # << >> /\ _repo[i][1].last_status = "critical") =>
            /\ FGe(_repo[i][1].cached_fast_burn_rate[1],
                   _repo[i][1].fast_burn_threshold)
            /\ FGe(_repo[i][1].cached_slow_burn_rate[1],
                   _repo[i][1].slow_burn_threshold)


\* ------------------------------------------------------------------- C25
\* The repository holds SLO slo_id and it is another tenant's.
ForeignSlo(slo_id, tenant_id) ==
    /\ _repo[slo_id] # << >>
    /\ _repo[slo_id][1].tenant_id # tenant_id

\* C25: a calculate_burn_rate call on another tenant's SLO returns None at
\* once, queries the backend not at all and leaves the repository as it
\* was; a delete_slo call on another tenant's SLO returns False and deletes
\* nothing; and an evaluation only ever rewrites a row of the calling tenant.
NothingAcrossTenants ==
    [][ /\ (/\ slo_service'.calls = slo_service.calls + 1
            /\ slo_service'.op = "calculate_burn_rate"
            /\ ForeignSlo(slo_service'.slo_id, slo_service'.tenant_id))
           => /\ slo_service'.pc = "idle"
              /\ slo_service'.ret = << >>
              /\ slo_service'.queries = slo_service.queries
              /\ _repo' = _repo
        /\ (/\ slo_service'.calls = slo_service.calls + 1
            /\ slo_service'.op = "delete_slo"
            /\ ForeignSlo(slo_service'.deleted[1].slo_id,
                          slo_service'.deleted[1].tenant_id))
           => /\ slo_service'.deleted[1].value = FALSE
              /\ _repo' = _repo
        /\ \A i \in SloIds :
              (_repo[i] # << >> /\ _repo'[i] # << >> /\ _repo'[i] # _repo[i])
                 => _repo[i][1].tenant_id = slo_service.tenant_id
      ]_vars

\* A tenant's SLO has been evaluated and its burn rates cached; the other
\* tenant has then asked for its burn rate, got None, and the row still
\* holds the first evaluation.
ForeignCallReturnedNone ==
    /\ slo_service.op = "calculate_burn_rate"
    /\ slo_service.pc = "idle"
    /\ slo_service.ret = << >>
    /\ slo_service.calls = 2
    /\ slo_service.queries = 2
    /\ ForeignSlo(slo_service.slo_id, slo_service.tenant_id)
    /\ _repo[slo_service.slo_id][1].last_evaluated_at = << 1 >>
    /\ _repo[slo_service.slo_id][1].last_status # "unknown"


\* ------------------------------------------------------------------- C26
\* The positions in groups of the groups of one tenant whose root cause is
\* an alert of one service.
GroupsOf(heap, groups, service, tenant) ==
    {i \in DOMAIN groups :
        /\ groups[i].tenant_id = tenant
        /\ heap[groups[i].root_cause].service_name = service}

\* C26: per tenant and per upstream service at most one group that is in
\* the active map and not yet stale has a root cause of that service.
OneGroupPerUpstreamService ==
    \A i, j \in DOMAIN _correlation_groups :
        LET g == _correlation_groups[i]
            h == _correlation_groups[j]
        IN  (i # j /\ ~Stale(g) /\ ~Stale(h) /\ g.tenant_id = h.tenant_id)
               => alerts[g.root_cause].service_name # alerts[h.root_cause].service_name

\* C26 as the code has it: no two active groups share a root-cause alert,
\* and an alert of an upstream service that arrives while a group of its
\* tenant and service is active, and is not suppressed, registers one more
\* group of that tenant and service.
SecondAlertRegistersSecondGroup ==
    /\ [](\A i, j \in DOMAIN _correlation_groups :
             i # j => _correlation_groups[i].root_cause
                         # _correlation_groups[j].root_cause)
    /\ [][LET new == alerts'[Len(alerts')]
              before == GroupsOf(AfterPrune.alerts, AfterPrune.groups,
                                 new.service_name, new.tenant_id)
              after == GroupsOf(alerts', _correlation_groups',
                                new.service_name, new.tenant_id)
          IN  (/\ IngestStep
               /\ new.service_name \in DOMAIN SERVICE_DEPENDENCY_GRAPH
               /\ before # {}
               /\ ret' # << >>)
              => /\ Cardinality(after) = Cardinality(before) + 1
                 /\ ret'[1].root_cause = Len(alerts')
                 /\ ret'[1] \in Range(_correlation_groups')
      ]_vars

\* Two alerts of one upstream service and tenant, ingested at the same
\* second: each is the root cause of a group of its own, both active.
TwoGroupsOfOneService ==
    /\ Len(_correlation_groups) = 2
    /\ _correlation_groups[1].started_at = now
    /\ _correlation_groups[1].tenant_id = _correlation_groups[2].tenant_id
    /\ alerts[_correlation_groups[1].root_cause].service_name = PC
    /\ alerts[_correlation_groups[2].root_cause].service_name = PC
    /\ _correlation_groups[2].root_cause = LastAlert
    /\ ret = << _correlation_groups[2] >>


\* ------------------------------------------------------------------- C27
\* The positions in groups of the groups of the new alert's tenant whose
\* root cause the new alert is downstream of.
Suppressors(heap, groups, new) ==
    {i \in DOMAIN groups :
        /\ groups[i].tenant_id = new.tenant_id
        /\ _is_downstream(heap[groups[i].root_cause].service_name,
                          new.service_name)}

\* An ingest of an alert that some group suppresses changes the groups
\* "before" into the groups of the next state by appending the alert to the
\* first of its suppressors and in no other way, returns None and does not
\* mark the alert a root cause.
SuppressedInto(before) ==
    LET new == Len(alerts')
        matching == Suppressors(alerts, before, alerts'[new])
    IN  (IngestStep /\ matching # {}) =>
           LET m == CHOOSE i \in matching : \A j \in matching : i <= j IN
           /\ ret' = << >>
           /\ GroupIds(_correlation_groups') = GroupIds(before)
           /\ Len(_correlation_groups') = Len(before)
           /\ \A i \in DOMAIN before :
                 i # m => _correlation_groups'[i] = before[i]
           /\ _correlation_groups'[m] =
                 [before[m] EXCEPT !.related_alerts = Append(@, new),
                                   !.suppressed_count = @ + 1]
           /\ ~alerts'[new].is_root_cause
           /\ alerts'[new].correlated_group_id = before[m].group_id

\* C27: an ingest of an alert that is downstream of the root cause of an
\* active group of its tenant appends the alert to the first such group,
\* creates no group, leaves every other group and the set of active group
\* ids as they were before the call, and does not mark the alert a root
\* cause.
SuppressionTouchesOneGroup ==
    [][Suppressors(alerts, AfterPrune.groups, alerts'[Len(alerts')]) # {}
          => SuppressedInto(_correlation_groups)]_vars

\* C27 as the code has it: the same, with the groups that the prune at the
\* start of the call leaves in place of the groups before the call.
SuppressionTouchesOneGroupAfterPrune ==
    [][SuppressedInto(AfterPrune.groups)]_vars

\* Two groups of one tenant with a platform-core root cause each, then a
\* data-layer alert of that tenant, itself a key of the dependency graph:
\* the first group has it, the second is as it was, None was returned.
SuppressedIntoFirstOfTwo ==
    /\ Len(_correlation_groups) = 2
    /\ ret = << >>
    /\ alerts[LastAlert].service_name = DL
    /\ ~alerts[LastAlert].is_root_cause
    /\ alerts[_correlation_groups[1].root_cause].service_name = PC
    /\ alerts[_correlation_groups[2].root_cause].service_name = PC
    /\ _correlation_groups[1].tenant_id = _correlation_groups[2].tenant_id
    /\ _correlation_groups[1].related_alerts = << LastAlert >>
    /\ _correlation_groups[2].related_alerts = << >>


\* ------------------------------------------------------------------- C28
\* C28: a group leaves the active map only in an ingest_alert call and only
\* when its started_at is more than 2 x window_seconds before that call;
\* every ingest_alert call removes every group that is stale at its start,
\* and the group a suppressed alert joins was not stale at the call.
GroupsLeaveOnlyByPrune ==
    [][/\ \A g \in Range(_correlation_groups) :
             g.group_id \notin GroupIds(_correlation_groups')
                => (IngestStep /\ g.started_at < now - 2 * window_seconds)
       /\ IngestStep =>
             /\ \A g \in Range(_correlation_groups) :
                   g.started_at < now - 2 * window_seconds
                      => g.group_id \notin GroupIds(_correlation_groups')
             /\ \A h \in Range(_correlation_groups') :
                   Len(alerts') \in Range(h.related_alerts)
                      => ~(h.started_at < now - 2 * window_seconds)
      ]_vars

\* A platform-core root cause whose group has gone stale, then a data-layer
\* alert of its tenant: the stale group is gone and has not suppressed the
\* alert, which is the root cause of the only group left.
StaleGroupDidNotSuppress ==
    /\ Len(alerts) = 2
    /\ alerts[1].service_name = PC
    /\ alerts[1].is_root_cause
    /\ alerts[1].timestamp < now - 2 * window_seconds
    /\ alerts[2].service_name = DL
    /\ alerts[2].tenant_id = alerts[1].tenant_id
    /\ alerts[2].timestamp = now
    /\ ret # << >>
    /\ ret[1].root_cause = 2
    /\ _correlation_groups = ret
    /\ alerts[1].correlated_group_id \notin GroupIds(_correlation_groups)


\* ------------------------------------------------------------------- C29
\* C29: under a fair scheduler every caller that has called ingest_alert
\* returns; a task inside the critical section holds the lock and keeps the
\* event loop until it returns; and the lock is free whenever no task is
\* inside the critical section, whatever the calls before returned.
EveryIngestReturns ==
    /\ \A t \in Callers : (pc[t] = "acquire") ~> (pc[t] = "done")
    /\ [](\A t \in InCriticalSection : _lock = t /\ running = t)
    /\ [](InCriticalSection = {} => _lock = 0)

\* Every caller has called and returned and the lock is free; before that,
\* one call was suppressed and another registered the group it returned.
AllReturnedLockFree ==
    /\ \A t \in Callers : pc[t] = "done"
    /\ Len(acquired) = Cardinality(Callers)
    /\ _lock = 0
    /\ running = 0
    /\ \E t \in Callers : call[t].ret = << >>
    /\ \E t \in Callers :
          /\ call[t].ret # << >>
          /\ call[t].ret[1].group_id \in GroupIds(_correlation_groups)


\* ------------------------------------------------------------------- C30
\* C30: with a target of 100 both evaluations return without a division
\* error, whatever the backend answers: calculate with burn rates 0, a
\* total budget of 0 and no burning flag, evaluate_multi_window with burn
\* rates 0, a total budget of 0 and is_alerting false.
PerfectSloNeverDividesByZero ==
    slo_def.target_percentage = Int2F(100) =>
        /\ calc.pc = "done" =>
              /\ calc.result[1].fast_burn_rate = Int2F(0)
              /\ calc.result[1].slow_burn_rate = Int2F(0)
              /\ calc.result[1].total_error_budget_minutes = Int2F(0)
              /\ ~calc.result[1].is_fast_burning
              /\ ~calc.result[1].is_slow_burning
        /\ multi.raised # << "ZeroDivisionError" >>
        /\ \A k \in DOMAIN multi.result :
              /\ multi.result[k].short_window.burn_rate = Int2F(0)
              /\ multi.result[k].long_window.burn_rate = Int2F(0)
              /\ multi.result[k].total_error_budget_minutes = Int2F(0)
              /\ ~multi.result[k].is_alerting


====
